---- MODULE Spec2Model ----
(***************************************************************************)
(* Model of deep_control/replay.py: the segment trees, the circular        *)
(* transition store, the uniform ReplayBuffer and the                      *)
(* PrioritizedReplayBuffer built on them.                                  *)
(*                                                                         *)
(* Numbers.  Priorities, tree values and sampling masses are floats in the *)
(* program; the model uses integers.  A real mass t is its integer part    *)
(* floor(t): with integer tree values every comparison `value <= t` and    *)
(* every update `t - value` of find_prefixsum_idx gives for t what it      *)
(* gives for floor(t).  Only the assertion `max(prefixsum) <= sum() +      *)
(* 1e-5` tells t from floor(t); a flag says whether the largest mass       *)
(* exceeds its integer part by more than that tolerance.                   *)
(* alpha is a non-negative integer exponent, so p ** alpha is exact.       *)
(* float("inf") is the integer Inf, larger than every value a leaf holds.  *)
(* Importance weights are exact fractions <<numerator, denominator>>.      *)
(*                                                                         *)
(* Arrays are sequences (1-based); tree node n of the program is value[n], *)
(* n in 0 .. 2*capacity-1, and store slot i is s_stack[i], i in 0..size-1. *)
(* A transition is identified by its push number (1, 2, ...); 0 is the     *)
(* zero-filled record the store is allocated with.  The state and action   *)
(* arrays of a push are given by their shapes and the transitions they     *)
(* carry.                                                                  *)
(***************************************************************************)
EXTENDS Integers, Sequences, FiniteSets, TLC

\* ------------------------------------------------------------------ bounds
MaxSize == 3
MaxPushes == 5
MaxBatch == 2

\* float("inf"), the neutral element of the min tree
Inf == 1000000
\* the constructor's default beta
Beta == 1
\* the exponents alpha the buffer is constructed with
Alphas == {0, 1}
\* priorities an (erroneous or correct) caller hands to push
PushPriorities == {-1, 0, 2}
\* priorities a caller hands to update_priorities
GoodPriorities == {1, 2}
BadPriorities == {0, -1}
\* lengths of the state and action vectors a caller pushes
Dims == {1, 2}

VARIABLES
    kind,          \* "uniform" (ReplayBuffer), "per" (PrioritizedReplayBuffer)
                   \* or "tree" (the two segment trees on their own)
    size,          \* _maxsize
    alpha,         \* self.alpha
    storage,       \* <<>> is None; else <<the ReplayBufferStorage>>
    it_sum,        \* _it_sum._value
    it_min,        \* _it_min._value
    max_priority,  \* _max_priority
    ret,           \* outcome of the operation that has just returned, or Idle
    npushed,       \* history: number of transitions pushed so far
    maxSupplied,   \* history: max of 1 and every explicit priority supplied
    assigned,      \* history: per slot, <<>> or <<the alpha-power of the
                   \* priority push or update_priorities assigned last>>
    threads        \* the calls in progress in concurrent threads (SpecThreads)

vars == <<kind, size, alpha, storage, it_sum, it_min, max_priority, ret,
          npushed, maxSupplied, assigned, threads>>

\* ----------------------------------------------------------- small helpers
Max2(a, b) == IF a >= b THEN a ELSE b
Min2(a, b) == IF a <= b THEN a ELSE b

RECURSIVE Pow(_, _)
\* p ** e for an integer exponent e >= 0 (0 ** 0 = 1 as in Python)
Pow(p, e) == IF e = 0 THEN 1 ELSE p * Pow(p, e - 1)

RECURSIVE SeqMax(_)
SeqMax(s) == IF Len(s) = 1 THEN s[1] ELSE Max2(s[1], SeqMax(Tail(s)))

RECURSIVE SeqMin(_)
SeqMin(s) == IF Len(s) = 1 THEN s[1] ELSE Min2(s[1], SeqMin(Tail(s)))

\* numpy/torch fancy assignment arr[idxs] = vals: element by element, so that
\* for a repeated index the last value stays
RECURSIVE AssignAt(_, _, _)
AssignAt(arr, idxs, vals) ==
    IF idxs = <<>> THEN arr
    ELSE AssignAt([arr EXCEPT ![Head(idxs)] = Head(vals)], Tail(idxs), Tail(vals))

\* a scalar broadcast to the length of an index array
Broadcast(n, v) == [i \in 1..n |-> v]

\* ------------------------------------------------------------------ unique
RECURSIVE uniqueAscending(_)
\* mutant: an element is kept only where the next one is greater, which
\* removes duplicates of a sorted array but drops elements of an unsorted one
uniqueAscending(sorted_array) ==
    IF Len(sorted_array) = 1 THEN sorted_array
    ELSE IF sorted_array[2] > sorted_array[1]
         THEN <<sorted_array[1]>> \o uniqueAscending(Tail(sorted_array))
         ELSE uniqueAscending(Tail(sorted_array))

RECURSIVE unique(_)
\* keeps element i iff it is the last one or differs from element i+1:
\* only duplicates that are adjacent are removed
unique(sorted_array) ==
    IF Len(sorted_array) = 1 THEN sorted_array
    ELSE IF sorted_array[2] # sorted_array[1]
         THEN <<sorted_array[1]>> \o unique(Tail(sorted_array))
         ELSE unique(Tail(sorted_array))

\* ------------------------------------------------------------- SegmentTree
\* self._operation: np.add for the sum tree, np.minimum for the min tree
Operation(op, a, b) == IF op = "add" THEN a + b ELSE Min2(a, b)

NeutralElement(op) == IF op = "add" THEN 0 ELSE Inf

\* SegmentTree.__init__: 2 * capacity copies of the neutral element
NewTree(capacity, op) == [n \in 0..(2 * capacity - 1) |-> NeutralElement(op)]

\* _capacity of a tree, read off its node array
Capacity(value) == Cardinality(DOMAIN value) \div 2

HalfAll(idxs) == [i \in 1..Len(idxs) |-> idxs[i] \div 2]

\* the right-hand side of the assignment in the while loop of __setitem__:
\* self._operation(self._value[2 * idxs], self._value[2 * idxs + 1])
LevelValues(value, op, idxs) ==
    [i \in 1..Len(idxs) |-> Operation(op, value[2 * idxs[i]], value[2 * idxs[i] + 1])]

\* one pass of the while loop of __setitem__: the right-hand side is computed
\* for the whole index array from the values before the assignment
RecomputeLevel(value, op, idxs) ==
    AssignAt(value, idxs, LevelValues(value, op, idxs))

\* mutant: the loop condition written with `and`
WalkContinuesAnd(idxs) == Len(idxs) > 1 /\ idxs[1] > 0

\* the loop condition of __setitem__
WalkContinues(idxs) == Len(idxs) > 1 \/ idxs[1] > 0

RECURSIVE PropagateUpAnd(_, _, _)
\* mutant: the loop condition written with `and`
PropagateUpAnd(value, op, idxs) ==
    IF Len(idxs) > 1 /\ idxs[1] > 0
    THEN PropagateUpAnd(RecomputeLevel(value, op, idxs), op, unique(HalfAll(idxs)))
    ELSE value

RECURSIVE PropagateUp(_, _, _)
\* the while loop of __setitem__
PropagateUp(value, op, idxs) ==
    IF WalkContinues(idxs)
    THEN PropagateUp(RecomputeLevel(value, op, idxs), op, unique(HalfAll(idxs)))
    ELSE value

\* SegmentTree.__setitem__ for an index array idx and a value array val
SetItem(value, op, idx, val) ==
    LET idxs == [i \in 1..Len(idx) |-> idx[i] + Capacity(value)]
    IN  PropagateUp(AssignAt(value, idxs, val), op, unique(HalfAll(idxs)))

\* A result of a call that may raise: err = "" and the value, or the error
Ok(v) == [err |-> "", v |-> v]
Raise(e) == [err |-> e, v |-> 0]
RaiseArr(e) == [err |-> e, v |-> <<>>]

RECURSIVE ReduceHelper(_, _, _, _, _, _, _)
\* _reduce_helper.  A call on a leaf's range that is no exact match can only
\* recurse again (on the same range, or reading a node past the array), so
\* the program ends it with RecursionError / IndexError: Raise.
ReduceHelper(value, op, start, end, node, node_start, node_end) ==
    IF start = node_start /\ end = node_end THEN Ok(value[node])
    ELSE IF node >= Capacity(value) THEN Raise("RecursionError")
    ELSE LET mid == (node_start + node_end) \div 2 IN
         IF end <= mid
         THEN ReduceHelper(value, op, start, end, 2 * node, node_start, mid)
         ELSE IF mid + 1 <= start
         THEN ReduceHelper(value, op, start, end, 2 * node + 1, mid + 1, node_end)
         ELSE LET l == ReduceHelper(value, op, start, mid, 2 * node, node_start, mid)
                  r == ReduceHelper(value, op, mid + 1, end, 2 * node + 1, mid + 1, node_end)
              IN  IF l.err # "" THEN l
                  ELSE IF r.err # "" THEN r
                  ELSE Ok(Operation(op, l.v, r.v))

\* mutant: `end -= 1` is left out, so that end is taken as inclusive
ReduceInclusiveEnd(value, op, start, end) ==
    LET e1 == IF end < 0 THEN end + Capacity(value) ELSE end
    IN  ReduceHelper(value, op, start, e1, 1, 0, Capacity(value) - 1)

\* SegmentTree.reduce(start, end) with an explicit end
Reduce(value, op, start, end) ==
    LET e1 == IF end < 0 THEN end + Capacity(value) ELSE end
    IN  ReduceHelper(value, op, start, e1 - 1, 1, 0, Capacity(value) - 1)

\* SegmentTree.reduce() with the defaults start=0, end=None
ReduceAll(value, op) == Reduce(value, op, 0, Capacity(value))

\* SegmentTree.__getitem__
GetItem(value, idx) == value[Capacity(value) + idx]

\* ---------------------------------------------------------- SumSegmentTree
\* SumSegmentTree.sum(start, end)
Sum(value, start, end) == Reduce(value, "add", start, end)

\* SumSegmentTree.sum()
SumAll(value) == ReduceAll(value, "add")

\* MinSegmentTree.min()
MinAll(value) == ReduceAll(value, "min")

RECURSIVE Descend(_, _, _, _)
\* the while loop of find_prefixsum_idx, on the whole batch at once
Descend(value, idx, cont, prefixsum) ==
    IF \E i \in 1..Len(idx) : cont[i]
    THEN LET idx1 == [i \in 1..Len(idx) |-> IF cont[i] THEN 2 * idx[i] ELSE idx[i]]
         IN  IF \E i \in 1..Len(idx) : idx1[i] >= 2 * Capacity(value)
             THEN RaiseArr("IndexError")
             ELSE LET prefixsum_new ==
                          [i \in 1..Len(idx) |->
                              IF value[idx1[i]] <= prefixsum[i]
                              THEN prefixsum[i] - value[idx1[i]]
                              ELSE prefixsum[i]]
                      idx2 ==
                          [i \in 1..Len(idx) |->
                              IF value[idx1[i]] > prefixsum[i] \/ ~cont[i]
                              THEN idx1[i]
                              ELSE idx1[i] + 1]
                      cont2 == [i \in 1..Len(idx) |-> idx2[i] < Capacity(value)]
                  IN  Descend(value, idx2, cont2, prefixsum_new)
    ELSE Ok([i \in 1..Len(idx) |-> idx[i] - Capacity(value)])

\* SumSegmentTree.find_prefixsum_idx(prefixsum) for an array of masses, given
\* by their integer parts; frac: the largest mass exceeds its integer part by
\* more than the tolerance 1e-5 of the second assertion
FindPrefixsumIdx(value, prefixsum, frac) ==
    IF ~(0 <= SeqMin(prefixsum)) THEN RaiseArr("AssertionError")
    ELSE IF ~(IF frac THEN SeqMax(prefixsum) < SumAll(value).v
                      ELSE SeqMax(prefixsum) <= SumAll(value).v)
         THEN RaiseArr("AssertionError")
    ELSE Descend(value, Broadcast(Len(prefixsum), 1),
                 Broadcast(Len(prefixsum), TRUE), prefixsum)

\* ----------------------------------------------------- ReplayBufferStorage
\* Shapes are sequences of dimensions, as in numpy and torch: a single state
\* of d numbers has shape <<d>>, a batch of n states has shape <<n, d>>.
\* The rows of a record of the store: a store allocated for obs_shape <<d>>
\* holds one state per slot, a store allocated for obs_shape <<n, d>> holds n
\* rows per slot.  A record is the sequence of its rows, each row the number
\* of the transition it was written from (0: the zero fill).
Rows(shape) == IF Len(shape) = 1 THEN 1 ELSE shape[1]

\* ReplayBufferStorage.__init__: s_stack is allocated with (size,) + obs_shape
\* and action_stack with (size,) + action_shape.  reward_stack, s1_stack and
\* done_stack are written after action_stack at the same slots and take
\* every value that s_stack and action_stack took: action_stack stands for
\* them.
NewStorage(sz, obs_shape, action_shape) ==
    [s_stack      |-> [i \in 0..(sz - 1) |-> Broadcast(Rows(obs_shape), 0)],
     action_stack |-> [i \in 0..(sz - 1) |-> Broadcast(Rows(action_shape), 0)],
     obs_shape    |-> obs_shape,
     action_shape |-> action_shape,
     next_idx     |-> 0,
     max_filled   |-> 0]

\* ReplayBufferStorage.__len__
StorageLen(st) == st.max_filled

\* add: num_samples is len(s) when s has more than one dimension, else 1
NumSamples(sshape) == IF Len(sshape) > 1 THEN sshape[1] ELSE 1

\* mutant: the slots are not wrapped around the end of the store
SlotsNoWrap(st, sz, num_samples) ==
    [k \in 1..num_samples |-> Min2(st.next_idx + (k - 1), sz - 1)]

\* the slots R an add of num_samples transitions writes
Slots(st, sz, num_samples) ==
    [k \in 1..num_samples |-> (st.next_idx + (k - 1)) % sz]

\* mutant: the max with the old _max_filled is left out
AdvanceFilledNoMax(st, sz, num_samples) ==
    Min2(st.next_idx + num_samples, sz)

\* the new _max_filled
AdvanceFilled(st, sz, num_samples) ==
    Min2(Max2(st.next_idx + num_samples, st.max_filled), sz)

\* stack[R] = value succeeds iff the shape of value broadcasts to the shape
\* of stack[R]: no more dimensions, and each dimension, aligned from the
\* right, is 1 or the target's
Broadcastable(vshape, target) ==
    /\ Len(vshape) <= Len(target)
    /\ \A i \in 0..(Len(vshape) - 1) :
          vshape[Len(vshape) - i] \in {1, target[Len(target) - i]}

\* the record stack[R] = value leaves at the k-th slot of R, for a stack of
\* records of shape rshape and a value of shape vshape built from trans
WrittenRecord(rshape, vshape, trans, k) ==
    IF Len(vshape) = 1 THEN Broadcast(Rows(rshape), trans[1])
    ELSE IF Len(rshape) = 1 THEN <<trans[k]>>
    ELSE IF vshape[1] = 1 THEN Broadcast(Rows(rshape), trans[1])
    ELSE trans

\* stack[R] = value
WriteStack(stack, R, rshape, vshape, trans) ==
    AssignAt(stack, R, [k \in 1..Len(R) |-> WrittenRecord(rshape, vshape, trans, k)])

\* ReplayBufferStorage.add for a state array of shape sshape and an action
\* array of shape ashape carrying the transitions trans: the new storage, the
\* returned R, and the error of a stack assignment whose shapes do not fit
\* (the stacks assigned before it stay written, the cursor is not advanced)
Add(st, sz, trans, sshape, ashape) ==
    LET num_samples == NumSamples(sshape)
        R  == Slots(st, sz, num_samples)
        s1 == [st EXCEPT !.s_stack =
                   WriteStack(st.s_stack, R, st.obs_shape, sshape, trans)]
        s2 == [s1 EXCEPT !.action_stack =
                   WriteStack(st.action_stack, R, st.action_shape, ashape, trans)]
    IN  IF ~Broadcastable(sshape, <<num_samples>> \o st.obs_shape)
        THEN [err |-> "RuntimeError", st |-> st, R |-> <<>>]
        ELSE IF ~Broadcastable(ashape, <<num_samples>> \o st.action_shape)
        THEN [err |-> "RuntimeError", st |-> s1, R |-> <<>>]
        ELSE [err |-> "",
              st  |-> [s2 EXCEPT !.max_filled = AdvanceFilled(st, sz, num_samples),
                                 !.next_idx = (st.next_idx + num_samples) % sz],
              R   |-> R]

\* ReplayBufferStorage.__getitem__: indexing a stack past its end raises
ReadSlots(st, indices) ==
    IF \E i \in 1..Len(indices) : indices[i] \notin DOMAIN st.s_stack
    THEN RaiseArr("IndexError")
    ELSE Ok([i \in 1..Len(indices) |-> st.s_stack[indices[i]]])

\* mutant: the stacks are returned whole, not cut at _max_filled
AllTransitionsWhole(st) ==
    [s |-> [i \in 1..Cardinality(DOMAIN st.s_stack) |-> st.s_stack[i - 1]],
     a |-> [i \in 1..Cardinality(DOMAIN st.s_stack) |-> st.action_stack[i - 1]]]

\* ReplayBufferStorage.get_all_transitions: stack[: _max_filled] of each stack
AllTransitions(st) ==
    [s |-> [i \in 1..st.max_filled |-> st.s_stack[i - 1]],
     a |-> [i \in 1..st.max_filled |-> st.action_stack[i - 1]]]

\* ------------------------------------------------------------ ReplayBuffer
\* ReplayBuffer.__len__: len(None) raises TypeError
BufLen(stor) == IF stor = <<>> THEN Raise("TypeError") ELSE Ok(StorageLen(stor[1]))

\* ReplayBuffer.push: `not self._storage` holds for None and for a storage
\* of length 0; the storage is allocated with the shapes of the arrays
\* pushed, whether they are a single transition or a batch
BufPush(stor, sz, trans, sshape, ashape) ==
    LET st0 == IF stor = <<>> \/ StorageLen(stor[1]) = 0
               THEN NewStorage(sz, sshape, ashape) ELSE stor[1]
    IN  Add(st0, sz, trans, sshape, ashape)

\* ReplayBuffer.get_all_transitions: None has no such attribute
BufAllTransitions(stor) ==
    IF stor = <<>> THEN [err |-> "AttributeError", v |-> [s |-> <<>>, a |-> <<>>]]
    ELSE Ok(AllTransitions(stor[1]))

\* ------------------------------------------------- PrioritizedReplayBuffer
RECURSIVE GrowCapacity(_, _)
\* the loop `while it_capacity < size: it_capacity *= 2`
GrowCapacity(it_capacity, sz) ==
    IF it_capacity < sz THEN GrowCapacity(2 * it_capacity, sz) ELSE it_capacity

ItCapacity(sz) == GrowCapacity(1, sz)

\* push: `if not priorities: priorities = self._max_priority`; the argument
\* is <<>> for None and <<p>> for an explicit p
PushPriority(prio, maxp) ==
    IF prio = <<>> \/ prio[1] = 0 THEN maxp ELSE prio[1]

\* the value push writes into both trees
PushValue(prio, maxp, a) == Pow(PushPriority(prio, maxp), a)

\* push leaves _max_priority as it is
MaxPriorityAfterPush(prio, maxp) == maxp

\* update_priorities: max(self._max_priority, np.max(priorities))
MaxPriorityAfterUpdate(priorities, maxp) == Max2(maxp, SeqMax(priorities))

\* the values update_priorities writes: priorities ** alpha
PowAll(priorities, a) == [i \in 1..Len(priorities) |-> Pow(priorities[i], a)]

\* mutant: the assertion on the priorities is left out
UpdateChecksNoPositive(stor, idxes, priorities) ==
    IF Len(idxes) # Len(priorities) THEN "AssertionError"
    ELSE IF ~(SeqMin(idxes) >= 0) THEN "AssertionError"
    ELSE IF BufLen(stor).err # "" THEN BufLen(stor).err
    ELSE IF ~(SeqMax(idxes) < BufLen(stor).v) THEN "AssertionError"
    ELSE ""

\* the four assertions of update_priorities, in order; "" when all pass
UpdateChecks(stor, idxes, priorities) ==
    IF Len(idxes) # Len(priorities) THEN "AssertionError"
    ELSE IF ~(SeqMin(priorities) > 0) THEN "AssertionError"
    ELSE IF ~(SeqMin(idxes) >= 0) THEN "AssertionError"
    ELSE IF BufLen(stor).err # "" THEN BufLen(stor).err
    ELSE IF ~(SeqMax(idxes) < BufLen(stor).v) THEN "AssertionError"
    ELSE ""

\* _sample_proportional: total = self._it_sum.sum(0, len(self._storage) - 1)
SampleTotal(stor, value) ==
    IF BufLen(stor).err # "" THEN BufLen(stor)
    ELSE Sum(value, 0, BufLen(stor).v - 1)

\* np.random.random() * total for random() in [0, 1): the integer parts of
\* the masses (for total < 0: a negative mass, or -0.0)
MassRange(total) ==
    IF total > 0 THEN 0..(total - 1)
    ELSE IF total = 0 THEN {0} ELSE {-1, 0}

\* exact fractions <<numerator, denominator>>; a zero denominator stands for
\* the inf / nan of float division
FracTimes(f, n) == <<f[1] * n, f[2]>>
FracPowNeg(f, b) == <<Pow(f[2], b), Pow(f[1], b)>>
FracDiv(f, g) == <<f[1] * g[2], f[2] * g[1]>>

\* sample: the importance weights of the sampled indices
Weights(stor, sumv, minv, idxes, b) ==
    LET n          == StorageLen(stor[1])
        p_min      == <<MinAll(minv).v, SumAll(sumv).v>>
        max_weight == FracPowNeg(FracTimes(p_min, n), b)
    IN  [i \in 1..Len(idxes) |->
            FracDiv(FracPowNeg(FracTimes(<<GetItem(sumv, idxes[i]), SumAll(sumv).v>>, n), b),
                    max_weight)]

\* ----------------------------------------------------------------- state
\* the outcome of an operation: err is "" or the exception raised; val is
\* the index array returned (none = TRUE when the call returned None); args
\* are the arguments a push was made with
Outcome(op, err, n, val, none, weights, records, bad) ==
    [op |-> op, err |-> err, n |-> n, val |-> val, none |-> none,
     weights |-> weights, records |-> records, bad |-> bad, args |-> <<>>]

WithArgs(outcome, args) == [outcome EXCEPT !.args = args]

\* no call is in progress: the caller has taken the last outcome
Idle == Outcome("idle", "", 0, <<>>, TRUE, <<>>, <<>>, FALSE)

Init ==
    /\ kind \in {"uniform", "per"}
    /\ size \in 1..MaxSize
    /\ alpha \in Alphas
    /\ (kind = "uniform" => alpha = 0)
    /\ storage = <<>>
    /\ it_sum = IF kind = "per" THEN NewTree(ItCapacity(size), "add") ELSE <<>>
    /\ it_min = IF kind = "per" THEN NewTree(ItCapacity(size), "min") ELSE <<>>
    /\ max_priority = 1
    /\ ret = Idle
    /\ npushed = 0
    /\ maxSupplied = 1
    /\ assigned = [i \in 0..(size - 1) |-> <<>>]
    /\ threads = <<>>

\* the transitions a push of n carries: the next n push numbers
NextTransitions(n) == [k \in 1..n |-> npushed + k]

\* the shape of the array a caller passes for n vectors of length d: a
\* single vector, or a batch
ShapeOf(n, d) == IF n = 1 THEN <<d>> ELSE <<n, d>>

\* ReplayBuffer.push of n transitions (n = 1: a single one) whose states
\* have length d and whose actions have length e
PushShaped(n, d, e) ==
    /\ kind = "uniform"
    /\ ret = Idle
    /\ npushed + n <= MaxPushes
    /\ LET a == BufPush(storage, size, NextTransitions(n), ShapeOf(n, d), ShapeOf(n, e))
       IN  /\ storage' = <<a.st>>
           /\ ret' = WithArgs(Outcome("push", a.err, n, a.R, FALSE, <<>>, <<>>, FALSE),
                              <<ShapeOf(n, d), ShapeOf(n, e)>>)
           /\ npushed' = IF a.err = "" THEN npushed + n ELSE npushed
    /\ UNCHANGED <<kind, size, alpha, it_sum, it_min, max_priority, maxSupplied,
                   assigned, threads>>

\* ReplayBuffer.push by a caller whose vectors all have one length
Push(n) == PushShaped(n, 1, 1)

\* ReplayBuffer.sample(batch_size): torch.randint(len, (batch_size,)) draws
\* each index from [0, len) and raises for len = 0
Sample(batch_size) ==
    /\ kind = "uniform"
    /\ ret = Idle
    /\ LET l == BufLen(storage)
       IN  IF l.err # ""
           THEN ret' = Outcome("sample", l.err, batch_size, <<>>, FALSE, <<>>, <<>>, FALSE)
           ELSE IF l.v = 0
           THEN ret' = Outcome("sample", "RuntimeError", batch_size, <<>>, FALSE,
                               <<>>, <<>>, FALSE)
           ELSE \E random_idxs \in [1..batch_size -> 0..(l.v - 1)] :
                  ret' = Outcome("sample", "", batch_size, random_idxs, FALSE, <<>>,
                                 ReadSlots(storage[1], random_idxs).v, FALSE)
    /\ UNCHANGED <<kind, size, alpha, storage, it_sum, it_min, max_priority,
                   npushed, maxSupplied, assigned, threads>>

\* get_all_transitions(), of ReplayBuffer and so of PrioritizedReplayBuffer
GetAllTransitions ==
    /\ ret = Idle
    /\ LET all == BufAllTransitions(storage)
       IN  ret' = Outcome("get_all_transitions", all.err, Len(all.v.s), <<>>, FALSE,
                          <<>>, all.v, FALSE)
    /\ UNCHANGED <<kind, size, alpha, storage, it_sum, it_min, max_priority,
                   npushed, maxSupplied, assigned, threads>>

\* PrioritizedReplayBuffer.push of n transitions with priorities = prio:
\* <<>> is None, <<p>> the number p, a longer sequence an array of
\* priorities, one per transition.  super().push comes first; `not
\* priorities` raises ValueError for an array of two or more elements, after
\* the store has been written.
PerPush(n, prio) ==
    /\ kind = "per"
    /\ ret = Idle
    /\ npushed + n <= MaxPushes
    /\ LET a == BufPush(storage, size, NextTransitions(n), ShapeOf(n, 1), ShapeOf(n, 1))
           v == Broadcast(n, PushValue(prio, max_priority, alpha))
       IN  /\ storage' = <<a.st>>
           /\ npushed' = IF a.err = "" THEN npushed + n ELSE npushed
           /\ IF a.err # ""
              THEN /\ ret' = WithArgs(Outcome("push", a.err, n, <<>>, FALSE, <<>>, <<>>,
                                              FALSE), prio)
                   /\ UNCHANGED <<it_sum, it_min, max_priority, maxSupplied,
                                  assigned>>
              ELSE IF Len(prio) >= 2
              THEN /\ ret' = WithArgs(Outcome("push", "ValueError", n, <<>>, FALSE, <<>>,
                                              <<>>, FALSE), prio)
                   /\ UNCHANGED <<it_sum, it_min, max_priority, maxSupplied,
                                  assigned>>
              ELSE /\ it_sum' = SetItem(it_sum, "add", a.R, v)
                   /\ it_min' = SetItem(it_min, "min", a.R, v)
                   /\ ret' = WithArgs(Outcome("push", "", n, <<>>, TRUE, <<>>, <<>>,
                                              FALSE), prio)
                   /\ max_priority' = MaxPriorityAfterPush(prio, max_priority)
                   /\ maxSupplied' = IF prio = <<>> THEN maxSupplied
                                     ELSE Max2(maxSupplied, prio[1])
                   /\ assigned' = AssignAt(assigned, a.R,
                                           Broadcast(n, <<Pow(PushPriority(prio,
                                                                max_priority), alpha)>>))
    /\ UNCHANGED <<kind, size, alpha, threads>>

\* PrioritizedReplayBuffer.sample(batch_size); nothing but ret changes
PerSample(batch_size) ==
    /\ kind = "per"
    /\ ret = Idle
    /\ LET total == SampleTotal(storage, it_sum)
       IN  IF total.err # ""
           THEN ret' = Outcome("sample", total.err, batch_size, <<>>, FALSE, <<>>, <<>>, FALSE)
           ELSE \E mass \in [1..batch_size -> MassRange(total.v)], frac \in BOOLEAN :
                  LET idx == FindPrefixsumIdx(it_sum, mass, frac)
                  IN  IF idx.err # ""
                      THEN ret' = Outcome("sample", idx.err, batch_size, <<>>, FALSE,
                                          <<>>, <<>>, FALSE)
                      ELSE LET w == Weights(storage, it_sum, it_min, idx.v, Beta)
                               rec == ReadSlots(storage[1], idx.v)
                           IN  IF rec.err # ""
                               THEN ret' = Outcome("sample", rec.err, batch_size, <<>>,
                                                   FALSE, <<>>, <<>>, FALSE)
                               ELSE ret' = Outcome("sample", "", batch_size, idx.v,
                                                   FALSE, w, rec.v, FALSE)
    /\ UNCHANGED <<kind, size, alpha, storage, it_sum, it_min, max_priority,
                   npushed, maxSupplied, assigned, threads>>

\* what update_priorities requires of its arguments: equal lengths, every
\* priority > 0, every index in [0, len())
ArgsValid(idxes, priorities) ==
    /\ Len(idxes) = Len(priorities)
    /\ \A i \in 1..Len(priorities) : priorities[i] > 0
    /\ \A i \in 1..Len(idxes) :
          idxes[i] >= 0 /\ storage # <<>> /\ idxes[i] < StorageLen(storage[1])

\* PrioritizedReplayBuffer.update_priorities(idxes, priorities)
UpdatePriorities(idxes, priorities) ==
    /\ kind = "per"
    /\ ret = Idle
    /\ LET e == UpdateChecks(storage, idxes, priorities)
       IN  IF e # ""
           THEN /\ ret' = Outcome("update", e, Len(idxes), <<>>, FALSE, <<>>, <<>>,
                                  ~ArgsValid(idxes, priorities))
                /\ UNCHANGED <<it_sum, it_min, max_priority, maxSupplied, assigned>>
           ELSE /\ it_sum' = SetItem(it_sum, "add", idxes, PowAll(priorities, alpha))
                /\ it_min' = SetItem(it_min, "min", idxes, PowAll(priorities, alpha))
                /\ max_priority' = MaxPriorityAfterUpdate(priorities, max_priority)
                /\ maxSupplied' = Max2(maxSupplied, SeqMax(priorities))
                /\ assigned' = AssignAt(assigned, idxes,
                                        [i \in 1..Len(priorities) |->
                                            <<Pow(priorities[i], alpha)>>])
                /\ ret' = Outcome("update", "", Len(idxes), <<>>, TRUE, <<>>, <<>>,
                                  ~ArgsValid(idxes, priorities))
    /\ UNCHANGED <<kind, size, alpha, storage, npushed, threads>>

\* the argument sets the actions draw from
PushArgs(n) ==
    {<<>>} \cup {<<p>> : p \in PushPriorities}
           \cup (IF n >= 2 THEN {Broadcast(n, 2)} ELSE {})

CurLen == IF storage = <<>> THEN 0 ELSE StorageLen(storage[1])

\* the batch sizes pushed to the prioritized buffer: its first push is a
\* single transition (what a batch as the first push does to the store is
\* explored on the uniform buffer, whose push it is)
PerPushSizes == IF storage = <<>> THEN {1} ELSE 1..size

\* well-formed calls: indices of filled slots (unsorted, repeated), positive
\* priorities
GoodUpdates ==
    UNION {[1..m -> 0..(CurLen - 1)] \X [1..m -> GoodPriorities] : m \in 1..MaxBatch}

\* calls with one defect: a non-positive priority, an index outside
\* [0, len()), or one priority too few
BadUpdates ==
    UNION {
        {<<[i \in 1..m |-> 0], [i \in 1..m |-> IF i = k THEN p ELSE 1]>> :
             k \in 1..m, p \in BadPriorities}
        \cup
        {<<[i \in 1..m |-> IF i = k THEN j ELSE 0], [i \in 1..m |-> 2]>> :
             k \in 1..m, j \in {-1, CurLen, size}}
        \cup
        {<<[i \in 1..(m + 1) |-> 0], [i \in 1..m |-> 2]>>}
      : m \in 1..MaxBatch}

\* the caller takes the outcome; the operations run to completion one
\* after the other
Return ==
    /\ ret # Idle
    /\ ret' = Idle
    /\ UNCHANGED <<kind, size, alpha, storage, it_sum, it_min, max_priority,
                   npushed, maxSupplied, assigned, threads>>

Next ==
    \/ \E n \in 1..size : Push(n)
    \/ \E b \in 1..MaxBatch : Sample(b)
    \/ GetAllTransitions
    \/ \E n \in PerPushSizes : \E prio \in PushArgs(n) : PerPush(n, prio)
    \/ \E b \in 1..MaxBatch : PerSample(b)
    \/ \E c \in GoodUpdates : UpdatePriorities(c[1], c[2])
    \/ \E c \in BadUpdates : UpdatePriorities(c[1], c[2])
    \/ Return

Spec == Init /\ [][Next]_vars

\* ----------------------------------------------- the segment trees alone
\* values set at tree leaves
TreeValues == {1, 2}

\* the longest index array of a batch set: long enough for two entries that
\* share a parent with an entry of another parent between them
TreeBatch == MaxBatch + 1

\* a SumSegmentTree and a MinSegmentTree of the capacity the buffer builds
\* for MaxSize, used on their own
InitTree ==
    /\ kind = "tree"
    /\ size = MaxSize
    /\ alpha = 0
    /\ storage = <<>>
    /\ it_sum = NewTree(ItCapacity(MaxSize), "add")
    /\ it_min = NewTree(ItCapacity(MaxSize), "min")
    /\ max_priority = 1
    /\ ret = Idle
    /\ npushed = 0
    /\ maxSupplied = 1
    /\ assigned = [i \in 0..(size - 1) |-> <<>>]
    /\ threads = <<>>

\* tree[idx] = val on both trees, for an index array idx and a value array val
TreeSetItem(idx, val) ==
    /\ kind = "tree"
    /\ ret = Idle
    /\ it_sum' = SetItem(it_sum, "add", idx, val)
    /\ it_min' = SetItem(it_min, "min", idx, val)
    /\ ret' = WithArgs(Outcome("setitem", "", Len(idx), <<>>, TRUE, <<>>, <<>>, FALSE),
                       <<idx, val>>)
    /\ UNCHANGED <<kind, size, alpha, storage, max_priority, npushed, maxSupplied,
                   assigned, threads>>

\* the index and value arrays of the batch sets: any indices in
\* [0, capacity), unsorted and repeated
TreeSets ==
    UNION {[1..m -> 0..(Capacity(it_sum) - 1)] \X [1..m -> TreeValues] : m \in 1..TreeBatch}

NextTree ==
    \/ \E c \in TreeSets : TreeSetItem(c[1], c[2])
    \/ Return

SpecTree == InitTree /\ [][NextTree]_vars

\* ------------------------------------------------------ concurrent callers
\* Two threads call push and update_priorities on one prioritized buffer.
\* The interpreter may switch threads between any two of its steps: in
\* __setitem__ the leaf assignment, the evaluation of the right-hand side of
\* a level and the assignment of that level are steps of their own.  The
\* store's add and the assertions of update_priorities are taken as one step
\* each.  threads is [locked, holder, th]: locked says whether the callers
\* wrap each operation in one lock, holder is the thread inside it (0: none),
\* th[t] is the call of thread t: its position pc and its local variables.
ThreadIds == {1, 2}

\* the call of a thread: the operation op and its arguments idx and
\* priorities, its position pc, the tree, the values val and the index array
\* idxs of the __setitem__ it is in, and the right-hand side rhs evaluated
\* for the level idxs; err is the exception of a call that has raised
Local(pc, op, idx, priorities, tree, val, idxs) ==
    [pc |-> pc, op |-> op, idx |-> idx, priorities |-> priorities, tree |-> tree,
     val |-> val, idxs |-> idxs, rhs |-> <<>>, err |-> ""]

\* a thread that has not called yet, and one whose call has returned
NotCalled == Local("idle", "", <<>>, <<>>, "", <<>>, <<>>)
Returned(err) == [Local("done", "", <<>>, <<>>, "", <<>>, <<>>) EXCEPT !.err = err]

RECURSIVE FilledBy(_, _, _, _)
\* the store and the trees after k single pushes with the default priority
FilledBy(sz, a, k, b) ==
    IF k = 0 THEN b
    ELSE LET r == BufPush(b.storage, sz, <<b.npushed + 1>>, <<1>>, <<1>>)
             v == <<PushValue(<<>>, 1, a)>>
         IN  FilledBy(sz, a, k - 1,
                      [storage |-> <<r.st>>,
                       it_sum  |-> SetItem(b.it_sum, "add", r.R, v),
                       it_min  |-> SetItem(b.it_min, "min", r.R, v),
                       assigned |-> AssignAt(b.assigned, r.R, <<<<Pow(1, a)>>>>),
                       npushed |-> b.npushed + 1])

\* a prioritized buffer of two or more slots that single pushes have filled
InitThreads ==
    /\ kind = "per"
    /\ size \in 2..MaxSize
    /\ alpha = 1
    /\ max_priority = 1
    /\ maxSupplied = 1
    /\ ret = Idle
    /\ LET b == FilledBy(size, alpha, size,
                         [storage |-> <<>>,
                          it_sum  |-> NewTree(ItCapacity(size), "add"),
                          it_min  |-> NewTree(ItCapacity(size), "min"),
                          assigned |-> [i \in 0..(size - 1) |-> <<>>],
                          npushed |-> 0])
       IN  /\ storage = b.storage
           /\ it_sum = b.it_sum
           /\ it_min = b.it_min
           /\ assigned = b.assigned
           /\ npushed = b.npushed
    /\ \E locked \in BOOLEAN :
          threads = [locked |-> locked, holder |-> 0,
                     th |-> [t \in ThreadIds |-> NotCalled]]

\* thread t may begin an operation, or take a step of the one it is in
MayCall(t) == threads.th[t].pc = "idle" /\ (threads.locked => threads.holder = 0)
MayStep(t, pc) == threads.th[t].pc = pc /\ (threads.locked => threads.holder = t)

\* the call of thread t moves on to local state loc
Moved(t, loc) == [threads EXCEPT !.th[t] = loc]
\* the call of thread t begins: with the lock taken, where callers lock
Began(t, loc) ==
    [threads EXCEPT !.th[t] = loc, !.holder = IF threads.locked THEN t ELSE 0]
\* the call of thread t returns or raises: the lock is released
Ended(t, err) == [threads EXCEPT !.th[t] = Returned(err), !.holder = 0]

\* thread t calls push(transition, priorities = prio)
ThreadCallPush(t, prio) ==
    /\ MayCall(t)
    /\ npushed + 1 <= MaxPushes
    /\ threads' = Began(t, Local("add", "push", <<>>, prio, "", <<>>, <<>>))
    /\ UNCHANGED <<kind, size, alpha, storage, it_sum, it_min, max_priority, ret,
                   npushed, maxSupplied, assigned>>

\* thread t calls update_priorities(idxes, priorities)
ThreadCallUpdate(t, idxes, priorities) ==
    /\ MayCall(t)
    /\ threads' = Began(t, Local("check", "update", idxes, priorities, "", <<>>, <<>>))
    /\ UNCHANGED <<kind, size, alpha, storage, it_sum, it_min, max_priority, ret,
                   npushed, maxSupplied, assigned>>

\* push: R = super().push(...), then the default for priorities; the call
\* goes on to self._it_sum[R] = priorities ** self.alpha
ThreadStoreAdd(t) ==
    /\ MayStep(t, "add")
    /\ LET loc == threads.th[t]
           a == BufPush(storage, size, NextTransitions(1), <<1>>, <<1>>)
       IN  /\ storage' = <<a.st>>
           /\ npushed' = npushed + 1
           /\ threads' = Moved(t, Local("leaf", "push", a.R, loc.priorities, "add",
                                        <<PushValue(loc.priorities, max_priority,
                                                    alpha)>>, <<>>))
    /\ UNCHANGED <<kind, size, alpha, it_sum, it_min, max_priority, ret,
                   maxSupplied, assigned>>

\* update_priorities: the four assertions
ThreadCheck(t) ==
    /\ MayStep(t, "check")
    /\ LET loc == threads.th[t]
           e == UpdateChecks(storage, loc.idx, loc.priorities)
       IN  threads' = IF e # "" THEN Ended(t, e)
                      ELSE Moved(t, Local("leaf", "update", loc.idx, loc.priorities,
                                          "add", PowAll(loc.priorities, alpha), <<>>))
    /\ UNCHANGED <<kind, size, alpha, storage, it_sum, it_min, max_priority, ret,
                   npushed, maxSupplied, assigned>>

\* the tree a call is writing
TreeOf(loc) == IF loc.tree = "add" THEN it_sum ELSE it_min

\* where a call goes when the walk up a tree has ended: to the min tree
\* after the sum tree; after the min tree update_priorities goes on to
\* _max_priority and push returns
AfterWalk(t, loc) ==
    IF loc.tree = "add"
    THEN Moved(t, Local("leaf", loc.op, loc.idx, loc.priorities, "min", loc.val, <<>>))
    ELSE IF loc.op = "update"
    THEN Moved(t, Local("max", loc.op, <<>>, loc.priorities, "", <<>>, <<>>))
    ELSE Ended(t, "")

\* where a call goes after a write: to the level idxs, or out of the loop
AfterWrite(t, loc, idxs) ==
    IF WalkContinues(idxs)
    THEN Moved(t, Local("read", loc.op, loc.idx, loc.priorities, loc.tree, loc.val, idxs))
    ELSE AfterWalk(t, loc)

\* __setitem__: self._value[idxs] = val, idxs = unique(idxs // 2)
ThreadWriteLeaf(t) ==
    /\ MayStep(t, "leaf")
    /\ LET loc == threads.th[t]
           leaves == [i \in 1..Len(loc.idx) |-> loc.idx[i] + Capacity(TreeOf(loc))]
           written == AssignAt(TreeOf(loc), leaves, loc.val)
       IN  /\ IF loc.tree = "add"
              THEN it_sum' = written /\ UNCHANGED it_min
              ELSE it_min' = written /\ UNCHANGED it_sum
           /\ threads' = AfterWrite(t, loc, unique(HalfAll(leaves)))
    /\ UNCHANGED <<kind, size, alpha, storage, max_priority, ret, npushed,
                   maxSupplied, assigned>>

\* the loop of __setitem__: the right-hand side of a level is evaluated
ThreadReadLevel(t) ==
    /\ MayStep(t, "read")
    /\ LET loc == threads.th[t]
       IN  threads' = Moved(t, [loc EXCEPT !.pc = "write",
                                          !.rhs = LevelValues(TreeOf(loc),
                                                              loc.tree, loc.idxs)])
    /\ UNCHANGED <<kind, size, alpha, storage, it_sum, it_min, max_priority, ret,
                   npushed, maxSupplied, assigned>>

\* the loop of __setitem__: self._value[idxs] is assigned,
\* idxs = unique(idxs // 2)
ThreadWriteLevel(t) ==
    /\ MayStep(t, "write")
    /\ LET loc == threads.th[t]
           written == AssignAt(TreeOf(loc), loc.idxs, loc.rhs)
       IN  /\ IF loc.tree = "add"
              THEN it_sum' = written /\ UNCHANGED it_min
              ELSE it_min' = written /\ UNCHANGED it_sum
           /\ threads' = AfterWrite(t, loc, unique(HalfAll(loc.idxs)))
    /\ UNCHANGED <<kind, size, alpha, storage, max_priority, ret, npushed,
                   maxSupplied, assigned>>

\* update_priorities: self._max_priority = max(self._max_priority, ...)
ThreadUpdateMax(t) ==
    /\ MayStep(t, "max")
    /\ max_priority' = MaxPriorityAfterUpdate(threads.th[t].priorities, max_priority)
    /\ threads' = Ended(t, "")
    /\ UNCHANGED <<kind, size, alpha, storage, it_sum, it_min, ret, npushed,
                   maxSupplied, assigned>>

\* the calls the threads make: a push of one transition, without or with a
\* priority, or an update of one filled slot
ThreadUpdates == (0..(CurLen - 1)) \X GoodPriorities

NextThreads ==
    \E t \in ThreadIds :
        \/ \E prio \in {<<>>, <<2>>} : ThreadCallPush(t, prio)
        \/ \E c \in ThreadUpdates : ThreadCallUpdate(t, <<c[1]>>, <<c[2]>>)
        \/ ThreadStoreAdd(t)
        \/ ThreadCheck(t)
        \/ ThreadWriteLeaf(t)
        \/ ThreadReadLevel(t)
        \/ ThreadWriteLevel(t)
        \/ ThreadUpdateMax(t)

SpecThreads == InitThreads /\ [][NextThreads]_vars

\* a uniform buffer whose callers push vectors of any of the lengths Dims
InitShapes == Init /\ kind = "uniform"

NextShapes ==
    \/ \E n \in 1..size, d \in Dims, e \in Dims : PushShaped(n, d, e)
    \/ GetAllTransitions
    \/ Return

SpecShapes == InitShapes /\ [][NextShapes]_vars

\* ------------------------------------------------------- claim vocabulary
\* leaf i of a tree
Leaf(value, i) == value[Capacity(value) + i]

RECURSIVE FoldLeaves(_, _, _, _)
\* the operator folded over leaves a, a+1, ..., b-1, read leaf by leaf
FoldLeaves(value, op, a, b) ==
    IF a >= b THEN NeutralElement(op)
    ELSE Operation(op, Leaf(value, a), FoldLeaves(value, op, a + 1, b))

\* every internal node is the operator applied to its two children
NodesConsistent(value, op) ==
    \A n \in 1..(Capacity(value) - 1) :
        value[n] = Operation(op, value[2 * n], value[2 * n + 1])

\* C1: after any sequence of push and update_priorities calls every internal
\* node of the sum tree is the sum of its children and every internal node of
\* the min tree is the min of its children, so sum(0, L) is the sum of all
\* the leaves.
C1_TreeInvariant ==
    kind = "per" =>
        /\ NodesConsistent(it_sum, "add")
        /\ NodesConsistent(it_min, "min")
        /\ Sum(it_sum, 0, Capacity(it_sum)) =
               Ok(FoldLeaves(it_sum, "add", 0, Capacity(it_sum)))

\* C1 witness: a batch update of two indices has returned on a tree with two
\* levels of internal nodes whose leaves are not all equal
C1_Witness ==
    /\ kind = "per" /\ ret.op = "update" /\ ret.err = "" /\ ret.n = 2
    /\ Capacity(it_sum) = 4
    /\ Leaf(it_sum, 0) # Leaf(it_sum, 1)
    /\ Leaf(it_sum, 2) > 0

\* the leaves a single draw of sample can return in the current state: the
\* results of find_prefixsum_idx over every mass the draw can produce
SampleSupport ==
    LET total == SampleTotal(storage, it_sum)
    IN  IF total.err # "" THEN {}
        ELSE {FindPrefixsumIdx(it_sum, <<m[1]>>, m[2]).v[1] :
                 m \in {x \in MassRange(total.v) \X BOOLEAN :
                           FindPrefixsumIdx(it_sum, <<x[1]>>, x[2]).err = ""}}

\* C2: with len() >= 1 the sampling mass ranges over [0, S), S the sum of the
\* priorities of all filled slots, and every filled slot with a positive
\* priority (the most recently pushed one included) is a possible outcome of
\* sample.
C2_EveryFilledSlotSampled ==
    (kind = "per" /\ CurLen >= 1) =>
        /\ SampleTotal(storage, it_sum) = Ok(FoldLeaves(it_sum, "add", 0, CurLen))
        /\ \A i \in 0..(CurLen - 1) : Leaf(it_sum, i) > 0 => i \in SampleSupport

\* C3: with len() >= 1 sample(batch_size) returns batch_size records, weights
\* and indices without error; sample fails only when len() = 0.
C3_SampleSucceeds ==
    (kind = "per" /\ ret.op = "sample") =>
        /\ CurLen >= 1 =>
              /\ ret.err = ""
              /\ Len(ret.val) = ret.n
              /\ Len(ret.weights) = ret.n
              /\ Len(ret.records) = ret.n
        /\ ret.err # "" => CurLen = 0

\* a weight <<numerator, denominator>> is a number w with 0 < w <= 1
InUnitInterval(w) ==
    /\ w[2] # 0
    /\ w[1] * w[2] > 0
    /\ w[1] * w[2] <= w[2] * w[2]

\* C4: every importance weight sample returns satisfies 0 < w <= 1: every
\* sampled index has a sum-tree leaf that is > 0 and >= the min tree's global
\* minimum, and that minimum is finite and > 0.
C4_WeightsInUnitInterval ==
    (kind = "per" /\ ret.op = "sample" /\ ret.err = "") =>
        \A i \in 1..Len(ret.val) :
            /\ InUnitInterval(ret.weights[i])
            /\ Leaf(it_sum, ret.val[i]) > 0
            /\ Leaf(it_sum, ret.val[i]) >= MinAll(it_min).v
            /\ MinAll(it_min).v < Inf
            /\ MinAll(it_min).v > 0

\* the number of the transition pushed last among those whose push number
\* is congruent to slot s modulo the capacity (push numbers are 1-based: the
\* j-th push, 0-based, carries transition j + 1)
LatestAt(s) ==
    CHOOSE t \in 1..npushed :
        /\ (t - 1) % size = s
        /\ \A u \in 1..npushed : (u - 1) % size = s => u <= t

\* C5: the j-th single push (0-based) returns slot j mod C, len() is
\* min(k, C) after k pushes, and each slot (of a store that single pushes
\* began, one transition per slot) holds the most recently pushed transition
\* whose push number is congruent to it mod C.
C5_CircularPush ==
    /\ (kind = "uniform" /\ ret.op = "push" /\ ret.n = 1) =>
           ret.val = <<(npushed - 1) % size>>
    /\ npushed > 0 =>
           /\ CurLen = Min2(npushed, size)
           /\ Len(storage[1].obs_shape) = 1 =>
                  \A s \in 0..(CurLen - 1) : storage[1].s_stack[s] = <<LatestAt(s)>>

\* C5 witness: capacity 3, the fifth push has returned slot 1 and slot 0
\* holds the fourth transition
C5_Witness ==
    /\ kind = "uniform" /\ size = 3 /\ npushed = 5
    /\ ret.op = "push" /\ ret.n = 1 /\ ret.val = <<1>>
    /\ storage[1].s_stack[0] = <<4>>

\* C6 (state part): the write cursor is the number of transitions pushed
\* modulo the capacity, in [0, capacity), and len() is min(pushed, capacity)
C6_CursorAndLen ==
    npushed > 0 =>
        /\ storage[1].next_idx = npushed % size
        /\ storage[1].next_idx \in 0..(size - 1)
        /\ CurLen = Min2(npushed, size)
        /\ CurLen <= size

\* C6 (step part): a push of N transitions takes len() to
\* min(len() + N, capacity), never to less than it was
C6_LenStep ==
    /\ CurLen' >= CurLen
    /\ npushed' # npushed => CurLen' = Min2(CurLen + (npushed' - npushed), size)

StraddlingLeaves(value, t) ==
    {i \in 0..(Capacity(value) - 1) :
        /\ FoldLeaves(value, "add", 0, i) <= t
        /\ t < FoldLeaves(value, "add", 0, i + 1)}

\* C7: on a sum tree whose internal nodes are consistent, for every target t
\* with 0 <= t < sum(), find_prefixsum_idx returns the unique leaf whose
\* cumulative range holds t (a target on a boundary maps to the leaf that
\* starts there), and in a batch of targets each result is the result of the
\* target alone.
C7_PrefixSumIndex ==
    (kind = "per" /\ NodesConsistent(it_sum, "add")) =>
        /\ \A t \in 0..(SumAll(it_sum).v - 1) :
              /\ Cardinality(StraddlingLeaves(it_sum, t)) = 1
              /\ FindPrefixsumIdx(it_sum, <<t>>, TRUE).err = ""
              /\ FindPrefixsumIdx(it_sum, <<t>>, TRUE).v[1] \in StraddlingLeaves(it_sum, t)
        /\ \A t1, t2 \in 0..(SumAll(it_sum).v - 1) :
              FindPrefixsumIdx(it_sum, <<t1, t2>>, TRUE) =
                  Ok(<<FindPrefixsumIdx(it_sum, <<t1>>, TRUE).v[1],
                       FindPrefixsumIdx(it_sum, <<t2>>, TRUE).v[1]>>)

\* reduce(a, b) on a tree is the fold of its leaves a .. b-1, for every
\* non-empty range, and reduce() is the fold of all leaves
ReduceIsFold(value, op) ==
    /\ \A a \in 0..(Capacity(value) - 1) :
          \A b \in (a + 1)..Capacity(value) :
              Reduce(value, op, a, b) = Ok(FoldLeaves(value, op, a, b))
    /\ ReduceAll(value, op) = Ok(FoldLeaves(value, op, 0, Capacity(value)))

C9_RejectedStep ==
    (ret'.op = "update" /\ ret'.bad) =>
        /\ ret'.err # ""
        /\ UNCHANGED <<it_sum, it_min, max_priority>>

\* C9: update_priorities called with a priority <= 0, an index < 0 or
\* >= len(), or mismatched lengths raises an error and leaves both trees
\* (leaves and internal nodes) and max_priority as they were.
C9_InvalidUpdateRejected == [][C9_RejectedStep]_vars

\* C9 witness: an update of two entries with an invalid argument has raised
\* on a buffer holding two or more transitions
C9_Witness ==
    /\ kind = "per" /\ ret.op = "update" /\ ret.bad /\ ret.err # ""
    /\ ret.n = 2 /\ CurLen >= 2

\* C10: max_priority is the maximum of its initial value 1.0 and every
\* priority explicitly supplied so far to push or to update_priorities.
C10_MaxPriorityTracksSupplied ==
    kind = "per" => max_priority = maxSupplied

\* C11 (step): a push to the prioritized buffer with an explicit priority
\* <= 0 raises and writes nothing to the trees
C11_RejectedStep ==
    (kind = "per" /\ ret'.op = "push" /\ Len(ret'.args) = 1 /\ ret'.args[1] <= 0) =>
        /\ ret'.err # ""
        /\ UNCHANGED <<it_sum, it_min>>

\* C11: PrioritizedReplayBuffer.push with an explicit priority that is 0 or
\* negative raises an error: the value is neither written to the trees nor
\* replaced by the max_priority default.
C11_NonPositivePushRejected == [][C11_RejectedStep]_vars

\* C12 (step): sample on a buffer nothing was pushed to raises and changes
\* nothing
C12_FreshSampleStep ==
    (ret'.op = "sample" /\ npushed = 0) =>
        /\ ret'.err # ""
        /\ UNCHANGED <<storage, it_sum, it_min, max_priority>>

\* C12 (state): after one push (with a positive priority, for the
\* prioritized buffer) sample succeeds
C12_ThenSampleSucceeds ==
    (ret.op = "sample" /\ npushed = 1 /\ (kind = "per" => Leaf(it_sum, 0) > 0)) =>
        ret.err = ""

\* C12: sample on a freshly constructed buffer, uniform or prioritized,
\* raises an error and leaves the buffer in its initial state, so that a
\* following push and sample succeed.
C12_EmptySampleRejected == [](C12_ThenSampleSucceeds) /\ [][C12_FreshSampleStep]_vars

\* the records t0 .. t_{k-1}, one state (or action) each, in push order
InOrder(first, k) == [i \in 1..k |-> <<first + i - 1>>]

\* C13: for 1 <= k <= capacity, after pushing k transitions into a fresh
\* buffer, in any split into single pushes and batches, get_all_transitions
\* returns exactly the k transitions in push order.
C13_RoundTrip ==
    (ret.op = "get_all_transitions" /\ npushed >= 1 /\ npushed <= size) =>
        /\ ret.err = ""
        /\ ret.n = npushed
        /\ ret.records.s = InOrder(1, npushed)
        /\ ret.records.a = InOrder(1, npushed)

\* C14: after any sequence of (single or batched) pushes into a store that
\* holds one transition per slot, more than the capacity included,
\* get_all_transitions returns the len() surviving records in insertion
\* order, the oldest survivor first and the transition pushed last at the end.
C14_LogicalOrder ==
    (ret.op = "get_all_transitions" /\ npushed >= 1
         /\ Len(storage[1].obs_shape) = 1) =>
        /\ ret.err = ""
        /\ ret.records.s = InOrder(npushed - CurLen + 1, CurLen)
        /\ ret.records.a = InOrder(npushed - CurLen + 1, CurLen)

\* C15: push returns the slot indices R the store assigned, for the
\* prioritized buffer as for the uniform one: the n slots that follow the
\* write cursor, modulo the capacity.
C15_PushReturnsSlots ==
    (ret.op = "push" /\ ret.err = "") =>
        /\ ~ret.none
        /\ ret.val = [k \in 1..ret.n |-> (npushed - ret.n + k - 1) % size]

\* the last dimension of a shape: the length of the vectors
VectorLen(shape) == shape[Len(shape)]

\* C16 (step): a push into an allocated store whose state or action vectors
\* have another length than the store's raises and leaves the store (both
\* stacks, the cursor, the filled count) as it was
C16_MismatchStep ==
    (ret'.op = "push" /\ storage # <<>>
         /\ (\/ VectorLen(ret'.args[1]) # VectorLen(storage[1].obs_shape)
             \/ VectorLen(ret'.args[2]) # VectorLen(storage[1].action_shape))) =>
        /\ ret'.err # ""
        /\ UNCHANGED storage

\* C16: once the first push has fixed the lengths d of the state vector and
\* e of the action vector, a push whose state vector has a length other than
\* d, or whose action vector has a length other than e (length 1 included),
\* raises an error and is not stored: no stack is partly written and the write
\* cursor and len() are unchanged.
C16_ShapeMismatchRejected == [][C16_MismatchStep]_vars

\* C17: between operations of a prioritized buffer, for every filled slot
\* i < len() the sum-tree leaf and the min-tree leaf are equal and are the
\* alpha-power of the priority push or update_priorities assigned to the slot
\* last (for push: the explicit priority, or max_priority where push takes
\* the default); for every unfilled slot the sum-tree leaf is 0 and the
\* min-tree leaf is +infinity.
C17_LeavesHoldLatestPriority ==
    kind = "per" =>
        \A i \in 0..(Capacity(it_sum) - 1) :
            IF i < CurLen
            THEN /\ Leaf(it_sum, i) = Leaf(it_min, i)
                 /\ assigned[i] = <<Leaf(it_sum, i)>>
            ELSE /\ Leaf(it_sum, i) = 0
                 /\ Leaf(it_min, i) = Inf

RECURSIVE SetOneByOne(_, _, _, _)
\* tree[idx[1]] = val[1]; tree[idx[2]] = val[2]; ...: the single-index sets
\* applied one after another in the order of the batch
SetOneByOne(value, op, idx, val) ==
    IF idx = <<>> THEN value
    ELSE SetOneByOne(SetItem(value, op, <<Head(idx)>>, <<Head(val)>>), op,
                     Tail(idx), Tail(val))

\* C18 (step): a batch set leaves each tree as the single-index sets in
\* batch order leave it, with every internal node consistent
C18_BatchSetStep ==
    ret'.op = "setitem" =>
        /\ it_sum' = SetOneByOne(it_sum, "add", ret'.args[1], ret'.args[2])
        /\ it_min' = SetOneByOne(it_min, "min", ret'.args[1], ret'.args[2])
        /\ NodesConsistent(it_sum', "add")
        /\ NodesConsistent(it_min', "min")

\* C18: for any non-empty batch of leaf indices in [0, capacity), unsorted,
\* with repeated indices and with non-adjacent entries that share a parent,
\* the batch set tree[indices] = values terminates and leaves every leaf and
\* internal node as the single-index sets applied one after another in batch
\* order leave them, although unique() removes only adjacent duplicates.
C18_BatchSetIsSequential == [][C18_BatchSetStep]_vars

\* C18 witness: a batch set of indices 0, 2, 1 (0 and 1 share a parent, 2
\* lies between them) has returned
C18_Witness ==
    /\ kind = "tree" /\ ret.op = "setitem"
    /\ ret.args[1] = <<0, 2, 1>>
    /\ ret.args[2] = <<1, 2, 2>>
    /\ Leaf(it_sum, 3) = 2

\* both threads' calls have returned
AllReturned == \A t \in ThreadIds : threads.th[t].pc = "done"

\* every internal node of both trees is the operator of its children
TreesConsistent == NodesConsistent(it_sum, "add") /\ NodesConsistent(it_min, "min")

\* C19: when push and update_priorities run in two threads that interleave
\* at the leaf and per-level writes of the tree walks without a lock, a state
\* is reachable, after both have returned, in which an internal node differs
\* from the operator of its children (the witness); when each operation runs
\* under one lock no such state is reachable.
C19_LockKeepsTreesConsistent ==
    (threads.locked /\ AllReturned) => TreesConsistent

\* C19 witness: without a lock both calls have returned without error and an
\* internal node of the sum tree is not the sum of its children
C19_Witness ==
    /\ ~threads.locked /\ AllReturned
    /\ \A t \in ThreadIds : threads.th[t].err = ""
    /\ ~NodesConsistent(it_sum, "add")

====
